---- MODULE Spec2Model ----
(* Model of libp2p/transport/capabilities.py: the duck-typed capability    *)
(* probes on transports and muxed connections, the upgrade plan the module *)
(* docstring assigns to each capability pair, and the establishment-wait   *)
(* protocol of the caller.                                                 *)
EXTENDS Integers, FiniteSets, Sequences, TLC

(***************************************************************************)
(* Bounds of the value universe.                                           *)
(***************************************************************************)
MaxInt == 1
MaxStrLen == 1

(***************************************************************************)
(* Python values.  Every value is a record [kind, n, rkind]:               *)
(*   absent   - the attribute does not exist on the object                 *)
(*   none     - None                                                       *)
(*   bool     - n = 1 for True, n = 0 for False                            *)
(*   int      - the integer n                                              *)
(*   str      - a string of length n                                       *)
(*   obj      - an opaque object (object(), an Event): truthy, not callable*)
(*   callable - a zero-argument callable returning the value (rkind, n)    *)
(***************************************************************************)
V(k, i) == [kind |-> k, n |-> i, rkind |-> "-"]
Absent == V("absent", 0)
None == V("none", 0)
B(b) == V("bool", IF b THEN 1 ELSE 0)
True == B(TRUE)
False == B(FALSE)
Obj == V("obj", 0)

DataVal ==
  {None, True, False, Obj}
    \cup {V("int", i) : i \in (-1)..MaxInt}
    \cup {V("str", i) : i \in 0..MaxStrLen}

Fn(r) == [kind |-> "callable", n |-> r.n, rkind |-> r.kind]
CallableVal == {Fn(r) : r \in DataVal}
Val == {Absent} \cup DataVal \cup CallableVal

(* bool(v) of the Python data model *)
Truthy(v) ==
  CASE v.kind = "none" -> FALSE
    [] v.kind = "bool" -> v.n = 1
    [] v.kind = "int" -> v.n # 0
    [] v.kind = "str" -> v.n # 0
    [] OTHER -> TRUE
bool(v) == B(Truthy(v))

(* callable(v) *)
callable(v) == B(v.kind = "callable")

(* v() for a callable v *)
Call(v) == V(v.rkind, v.n)

(* x and y: the first operand when it is falsy, else the second *)
PyAnd(x, y) == IF Truthy(x) THEN y ELSE x

(* hasattr(obj, name) / getattr(obj, name, default) *)
hasattr(obj, name) == B(obj[name].kind # "absent")
getattr(obj, name, default) ==
  IF obj[name].kind = "absent" THEN default ELSE obj[name]

PROVIDES_SECURE_ATTRIBUTE == "provides_secure_connection"
PROVIDES_MUXED_ATTRIBUTE == "provides_muxed_connection"
TransportAttrs == {PROVIDES_SECURE_ATTRIBUTE, PROVIDES_MUXED_ATTRIBUTE}
ConnAttrs ==
  {"set_resource_scope", "is_established", "_connected_event",
   "_negotiation_semaphore"}

(* A function's outcome: the returned value and the members it invoked *)
Result(v, inv) == [val |-> v, invoked |-> inv]

(***************************************************************************)
(* Transport capability helpers.                                           *)
(***************************************************************************)
transport_provides_secure_connection_default_true(transport) ==
  Result(bool(getattr(transport, PROVIDES_SECURE_ATTRIBUTE, True)), {})

transport_provides_secure_connection(transport) ==
  Result(bool(getattr(transport, PROVIDES_SECURE_ATTRIBUTE, False)), {})

transport_provides_muxed_connection_reads_secure(transport) ==
  Result(bool(getattr(transport, PROVIDES_SECURE_ATTRIBUTE, False)), {})

transport_provides_muxed_connection_uncoerced(transport) ==
  Result(getattr(transport, PROVIDES_MUXED_ATTRIBUTE, False), {})

transport_provides_muxed_connection(transport) ==
  Result(bool(getattr(transport, PROVIDES_MUXED_ATTRIBUTE, False)), {})

transport_provides_secure_muxed_or(transport) ==
  LET s == transport_provides_secure_connection(transport)
      m == transport_provides_muxed_connection(transport)
  IN  Result(IF Truthy(s.val) THEN s.val ELSE m.val,
             s.invoked \cup m.invoked)

transport_provides_secure_muxed(transport) ==
  LET s == transport_provides_secure_connection(transport)
      m == transport_provides_muxed_connection(transport)
  IN  Result(PyAnd(s.val, m.val), s.invoked \cup m.invoked)

(***************************************************************************)
(* The upgrade plan per capability pair, as the stages that still run.     *)
(***************************************************************************)
Plan(sec, mux) == [security |-> sec, muxer |-> mux]
RunBoth == Plan(TRUE, TRUE)
RunMuxerOnly == Plan(FALSE, TRUE)
RunSecurityOnly == Plan(TRUE, FALSE)
RunNeither == Plan(FALSE, FALSE)
NoPlan == [security |-> FALSE, muxer |-> FALSE, unset |-> TRUE]

(* Neither: security then muxer.  Secure only: muxer only.                 *)
(* Muxed only: use as-is.  Both: skip upgrade.                             *)
UpgradePlan(transport) ==
  LET secure == Truthy(transport_provides_secure_connection(transport).val)
      muxed == Truthy(transport_provides_muxed_connection(transport).val)
      both == Truthy(transport_provides_secure_muxed(transport).val)
  IN  CASE both -> RunNeither
        [] muxed /\ ~secure -> RunNeither
        [] secure /\ ~muxed -> RunMuxerOnly
        [] OTHER -> RunBoth

(***************************************************************************)
(* Muxed-connection capability helpers.                                    *)
(***************************************************************************)
muxed_conn_has_resource_scope_presence_only(muxed_conn) ==
  Result(hasattr(muxed_conn, "set_resource_scope"), {})

muxed_conn_has_resource_scope(muxed_conn) ==
  Result(PyAnd(hasattr(muxed_conn, "set_resource_scope"),
               callable(getattr(muxed_conn, "set_resource_scope", None))),
         {})

muxed_conn_has_establishment_wait_either(muxed_conn) ==
  LET has_established == hasattr(muxed_conn, "is_established")
      has_event == hasattr(muxed_conn, "_connected_event")
  IN  Result(bool(IF Truthy(has_established) THEN has_established
                  ELSE has_event), {})

muxed_conn_has_establishment_wait_event_only(muxed_conn) ==
  Result(bool(hasattr(muxed_conn, "_connected_event")), {})

muxed_conn_has_establishment_wait(muxed_conn) ==
  LET has_established == hasattr(muxed_conn, "is_established")
      has_event == hasattr(muxed_conn, "_connected_event")
  IN  Result(bool(PyAnd(has_established, has_event)), {})

muxed_conn_has_negotiation_semaphore_truthy(muxed_conn) ==
  Result(PyAnd(hasattr(muxed_conn, "_negotiation_semaphore"),
               bool(getattr(muxed_conn, "_negotiation_semaphore", None))),
         {})

muxed_conn_has_negotiation_semaphore(muxed_conn) ==
  Result(PyAnd(hasattr(muxed_conn, "_negotiation_semaphore"),
               B(getattr(muxed_conn, "_negotiation_semaphore", None).kind
                   # "none")),
         {})

muxed_conn_get_establishment_waiter_gated(muxed_conn) ==
  Result(IF Truthy(getattr(muxed_conn, "is_established", None))
         THEN getattr(muxed_conn, "_connected_event", None)
         ELSE None, {})

muxed_conn_get_establishment_waiter(muxed_conn) ==
  Result(getattr(muxed_conn, "_connected_event", None), {})

muxed_conn_is_established_never_calls(muxed_conn) ==
  LET established == getattr(muxed_conn, "is_established", None)
  IN  IF established.kind = "none" THEN Result(True, {})
      ELSE Result(bool(established), {})

muxed_conn_is_established(muxed_conn) ==
  LET established == getattr(muxed_conn, "is_established", None)
  IN  IF established.kind = "none" THEN Result(True, {})
      ELSE IF Truthy(callable(established))
           THEN Result(bool(Call(established)), {"is_established"})
           ELSE Result(bool(established), {})

(***************************************************************************)
(* State.                                                                  *)
(***************************************************************************)
VARIABLES
  transport,  \* the transport object: attribute name -> value
  conn,       \* the muxed connection object: attribute name -> value
  op,         \* the helper called last ("none" before any call)
  ret,        \* the value that call returned
  invoked,    \* the members of the inspected object that call invoked
  plan,       \* the upgrade plan computed for the transport
  pc,         \* the caller's position in the establishment wait
  signalled,  \* the wait handle has signalled
  cancelled   \* the caller's cancellation or timeout has fired

vars ==
  <<transport, conn, op, ret, invoked, plan, pc, signalled, cancelled>>

RawTransport == [a \in TransportAttrs |-> Absent]
RawConn == [a \in ConnAttrs |-> Absent]

Quiet ==
  /\ op = "none"
  /\ ret = None
  /\ invoked = {}
  /\ plan = NoPlan
  /\ pc = "idle"
  /\ signalled = FALSE
  /\ cancelled = FALSE

(* One helper call: record which helper ran and what it produced *)
Called(name, r) ==
  /\ op' = name
  /\ ret' = r.val
  /\ invoked' = r.invoked
  /\ UNCHANGED <<transport, conn, plan, pc, signalled, cancelled>>

(***************************************************************************)
(* Transport helpers applied to every transport shape.                     *)
(***************************************************************************)
InitTransport ==
  /\ transport \in [TransportAttrs -> Val]
  /\ conn = RawConn
  /\ Quiet

CallProvidesSecure ==
  Called("transport_provides_secure_connection",
         transport_provides_secure_connection(transport))

CallProvidesMuxed ==
  Called("transport_provides_muxed_connection",
         transport_provides_muxed_connection(transport))

CallProvidesSecureMuxed ==
  Called("transport_provides_secure_muxed",
         transport_provides_secure_muxed(transport))

ComputePlan ==
  /\ op' = "upgrade_plan"
  /\ plan' = UpgradePlan(transport)
  /\ ret' = None
  /\ invoked' = {}
  /\ UNCHANGED <<transport, conn, pc, signalled, cancelled>>

NextTransport ==
  \/ CallProvidesSecure
  \/ CallProvidesMuxed
  \/ CallProvidesSecureMuxed
  \/ ComputePlan

SpecTransport == InitTransport /\ [][NextTransport]_vars

(***************************************************************************)
(* Connection helpers applied to every connection shape.  The helpers for  *)
(* resource scope and negotiation throttle read one member each; the three *)
(* establishment helpers read the status member and the wait handle.       *)
(***************************************************************************)
Presence == {Absent, Obj}

InitScope ==
  /\ transport = RawTransport
  /\ conn \in [ConnAttrs -> Val]
  /\ conn["is_established"] \in Presence
  /\ conn["_connected_event"] \in Presence
  /\ Quiet

CallHasResourceScope ==
  Called("muxed_conn_has_resource_scope",
         muxed_conn_has_resource_scope(conn))

CallHasNegotiationSemaphore ==
  Called("muxed_conn_has_negotiation_semaphore",
         muxed_conn_has_negotiation_semaphore(conn))

NextScope ==
  \/ CallHasResourceScope
  \/ CallHasNegotiationSemaphore

SpecScope == InitScope /\ [][NextScope]_vars

InitEstablishment ==
  /\ transport = RawTransport
  /\ conn \in [ConnAttrs -> Val]
  /\ conn["set_resource_scope"] \in Presence
  /\ conn["_negotiation_semaphore"] \in Presence
  /\ Quiet

CallHasEstablishmentWait ==
  Called("muxed_conn_has_establishment_wait",
         muxed_conn_has_establishment_wait(conn))

CallGetEstablishmentWaiter ==
  Called("muxed_conn_get_establishment_waiter",
         muxed_conn_get_establishment_waiter(conn))

CallIsEstablished ==
  Called("muxed_conn_is_established", muxed_conn_is_established(conn))

NextEstablishment ==
  \/ CallHasEstablishmentWait
  \/ CallGetEstablishmentWaiter
  \/ CallIsEstablished

SpecEstablishment == InitEstablishment /\ [][NextEstablishment]_vars

(***************************************************************************)
(* The establishment wait of one connection: the caller gates on           *)
(* muxed_conn_has_establishment_wait, reads muxed_conn_is_established and, *)
(* when the connection is not yet established, waits on the handle that    *)
(* muxed_conn_get_establishment_waiter returns.                            *)
(***************************************************************************)
Waitable(w) == w.kind \in {"obj", "callable"}

(* the status member after the handshake completed *)
Established(v) ==
  IF v.kind = "callable" THEN Fn(True)
  ELSE IF v.kind = "absent" THEN Absent
  ELSE True

InitWait ==
  /\ transport = RawTransport
  /\ conn \in [ConnAttrs -> Val]
  /\ conn["set_resource_scope"] = Absent
  /\ conn["_negotiation_semaphore"] = Absent
  /\ Quiet

BeginWait ==
  /\ pc = "idle"
  /\ LET gate == muxed_conn_has_establishment_wait(conn)
         status == muxed_conn_is_established(conn)
         waiter == muxed_conn_get_establishment_waiter(conn)
     IN  /\ op' = "wait_for_establishment"
         /\ IF ~Truthy(gate.val)
            THEN /\ pc' = "ready"
                 /\ ret' = gate.val
                 /\ invoked' = gate.invoked
            ELSE IF Truthy(status.val)
            THEN /\ pc' = "ready"
                 /\ ret' = status.val
                 /\ invoked' = gate.invoked \cup status.invoked
            ELSE /\ pc' = IF Waitable(waiter.val) THEN "waiting" ELSE "failed"
                 /\ ret' = waiter.val
                 /\ invoked' =
                      gate.invoked \cup status.invoked \cup waiter.invoked
  /\ UNCHANGED <<transport, conn, plan, signalled, cancelled>>

(* the connection's handshake completes: Unestablished -> Established *)
Establish ==
  /\ pc \in {"idle", "waiting"}
  /\ ~signalled
  /\ Truthy(muxed_conn_has_establishment_wait(conn).val)
  /\ ~Truthy(muxed_conn_is_established(conn).val)
  /\ Waitable(conn["_connected_event"])
  /\ conn' = [conn EXCEPT !["is_established"] = Established(@)]
  /\ signalled' = TRUE
  /\ UNCHANGED <<transport, op, ret, invoked, plan, pc, cancelled>>

Resume ==
  /\ pc = "waiting"
  /\ signalled
  /\ pc' = "ready"
  /\ UNCHANGED <<transport, conn, op, ret, invoked, plan, signalled,
                 cancelled>>

Cancel ==
  /\ pc = "waiting"
  /\ cancelled' = TRUE
  /\ pc' = "cancelled"
  /\ UNCHANGED <<transport, conn, op, ret, invoked, plan, signalled>>

NextWait ==
  \/ BeginWait
  \/ Establish
  \/ Resume
  \/ Cancel

SpecWait == InitWait /\ [][NextWait]_vars

(* the scheduler resumes a caller whose wait handle has signalled *)
SpecWaitFair == SpecWait /\ WF_vars(Resume)

(***************************************************************************)
(* Properties.                                                             *)
(***************************************************************************)
(* a value counts as true: True, a non-zero integer, a non-empty string,   *)
(* any object or callable; False, 0, "" and None count as false            *)
CountsAsTrue(v) ==
  \/ v.kind = "bool" /\ v.n = 1
  \/ v.kind = "int" /\ v.n # 0
  \/ v.kind = "str" /\ v.n > 0
  \/ v.kind \in {"obj", "callable"}

Present(v) == v.kind # "absent"
MarkerOn(v) == Present(v) /\ CountsAsTrue(v)
SecureMarker == transport[PROVIDES_SECURE_ATTRIBUTE]
MuxedMarker == transport[PROVIDES_MUXED_ATTRIBUTE]
StatusMember == conn["is_established"]
WaitHandle == conn["_connected_event"]
ScopeSetter == conn["set_resource_scope"]
ThrottleHandle == conn["_negotiation_semaphore"]
Planned == op = "upgrade_plan"

PlanTable ==
  /\ plan \in {RunBoth, RunMuxerOnly, RunSecurityOnly, RunNeither}
  /\ (~MarkerOn(SecureMarker) /\ ~MarkerOn(MuxedMarker)) => plan = RunBoth
  /\ (MarkerOn(SecureMarker) /\ ~MarkerOn(MuxedMarker)) => plan = RunMuxerOnly
  /\ (MarkerOn(SecureMarker) /\ MarkerOn(MuxedMarker)) => plan = RunNeither

IsEstablishedCalled == op = "muxed_conn_is_established"

(* C3 as stated: is-established is true when the status member is absent,  *)
(* the truthiness of the call's result when it is invocable, and the       *)
(* truthiness of the value otherwise, None included (false).               *)
C3_StatusTruthiness ==
  IsEstablishedCalled =>
    ret = B(CASE ~Present(StatusMember) -> TRUE
              [] StatusMember.kind = "callable" ->
                   CountsAsTrue(Call(StatusMember))
              [] OTHER -> CountsAsTrue(StatusMember))

(* C3 amended: is-established is true when the status member is absent or  *)
(* present with the value None, the truthiness of the call's result when   *)
(* it is invocable, and the truthiness of the value for every other value. *)
C3_StatusTruthinessNoneReady ==
  IsEstablishedCalled =>
    ret = B(CASE ~Present(StatusMember) -> TRUE
              [] StatusMember.kind = "none" -> TRUE
              [] StatusMember.kind = "callable" ->
                   CountsAsTrue(Call(StatusMember))
              [] OTHER -> CountsAsTrue(StatusMember))

C3_Witness ==
  /\ IsEstablishedCalled
  /\ StatusMember = Fn(V("int", 0))
  /\ invoked = {"is_established"}
  /\ ret = False

(* C4: has-establishment-wait is true iff the status member and the wait   *)
(* handle are both present, whatever the status member's value.            *)
C4_WaitNeedsBoth ==
  op = "muxed_conn_has_establishment_wait" =>
    ret = B(Present(StatusMember) /\ Present(WaitHandle))

C4_Witness ==
  /\ op = "muxed_conn_has_establishment_wait"
  /\ StatusMember = Absent
  /\ WaitHandle = Obj
  /\ ret = False

(* C5: each transport probe is false when its own marker is absent and the *)
(* truthiness of its own marker otherwise, as a boolean, whatever the      *)
(* other marker holds.                                                     *)
C5_MarkerTruthiness ==
  /\ op = "transport_provides_secure_connection"
       => ret = B(MarkerOn(SecureMarker))
  /\ op = "transport_provides_muxed_connection"
       => ret = B(MarkerOn(MuxedMarker))

C5_Witness ==
  /\ op = "transport_provides_muxed_connection"
  /\ MuxedMarker = V("int", 1)
  /\ SecureMarker = False
  /\ ret = True

(* C6: the secure-and-muxed probe equals the logical AND of the two        *)
(* single probes and is a boolean.                                         *)
C6_SecureMuxedIsAnd ==
  op = "transport_provides_secure_muxed" =>
    /\ ret.kind = "bool"
    /\ ret = B(/\ Truthy(transport_provides_secure_connection(transport).val)
               /\ Truthy(transport_provides_muxed_connection(transport).val))

C6_Witness ==
  /\ op = "transport_provides_secure_muxed"
  /\ SecureMarker = V("int", 1)
  /\ MuxedMarker = V("str", 0)
  /\ ret = False

(* C7: has-resource-scope is true only when the setter is present and      *)
(* invocable, and the probe invokes nothing.                               *)
C7_ScopeNeedsCallable ==
  op = "muxed_conn_has_resource_scope" =>
    /\ ret = B(Present(ScopeSetter) /\ ScopeSetter.kind = "callable")
    /\ invoked = {}

C7_Witness ==
  /\ op = "muxed_conn_has_resource_scope"
  /\ ScopeSetter = V("int", 1)
  /\ ret = False

(* C8: has-negotiation-throttle is false when the handle is absent or None *)
(* and true for every other present value, falsy ones included.            *)
C8_ThrottleNotNone ==
  op = "muxed_conn_has_negotiation_semaphore" =>
    ret = B(Present(ThrottleHandle) /\ ThrottleHandle.kind # "none")

C8_Witness ==
  /\ op = "muxed_conn_has_negotiation_semaphore"
  /\ ThrottleHandle = V("int", 0)
  /\ ret = True

WaitNeeded ==
  /\ Present(StatusMember)
  /\ Present(WaitHandle)
  /\ ~Truthy(muxed_conn_is_established(conn).val)

(* C9: the caller suspends only when both establishment members are        *)
(* present and the connection is not established; otherwise it proceeds at *)
(* once; a suspended caller leaves the wait only because the handle        *)
(* signalled or its cancellation fired, and does leave it once the handle  *)
(* has signalled.                                                          *)
C9_WaitProtocol ==
  /\ [][/\ (pc # "waiting" /\ pc' = "waiting") => (pc = "idle" /\ WaitNeeded)
        /\ (pc = "idle" /\ pc' # "idle" /\ ~WaitNeeded) => pc' = "ready"
        /\ (pc = "waiting" /\ pc' # "waiting") =>
             \/ signalled /\ pc' = "ready"
             \/ cancelled' /\ pc' = "cancelled"]_vars
  /\ (pc = "waiting" /\ signalled) ~> (pc # "waiting")

(* a caller that suspended on the handle and resumed after it signalled *)
C9_Witness ==
  /\ op = "wait_for_establishment"
  /\ pc = "ready"
  /\ signalled
  /\ ret = Obj
  /\ StatusMember = Fn(True)

====
